---- MODULE Spec2Model ----
(***************************************************************************)
(* pgr-generate-chr-aln-plot: primary assignment of query contigs to       *)
(* targets, linear layout of the target blocks, projection of alignment    *)
(* records into ribbons, and assembly of the overview and detail scenes.   *)
(* Coordinates are kept in bases (before the multiplication by the scaling *)
(* factor); every length and offset is an integer far below 2^53, so the   *)
(* f64 sums of the program are exact and are modelled by integers.        *)
(* pgr-merge-svcnd-bed, the second program of the repository, reads and    *)
(* merges bed intervals; it has its own variables and its own next-state   *)
(* relation (NextMerge) below.                                             *)
(***************************************************************************)
EXTENDS Integers, Sequences, FiniteSets, TLC

VARIABLES
    args_ctg,                \* --ctg: NoCtg, "summary" or a target name
    records,                 \* ctgmap_set.records
    target_length,           \* ctgmap_set.target_length: <<id, name, len>>
    query_length_tbl,        \* ctgmap_set.query_length: <<id, name, len>>
    pc,                      \* position of main
    ctg_target_hit_len,      \* query -> target -> coverage tally
    ctg2tgt,                 \* query -> primary target
    tgt_to_records,          \* target -> primary records
    qry_to_alt_tgt_records,  \* query -> alternate records
    tgt_to_alt_qry_records,  \* target -> alternate records
    target_aln_blocks,       \* laid-out blocks
    offset,                  \* running global offset
    hash_order,              \* iteration order of best_query_block in this run
    overview,                \* groups appended by plot_overview
    detail,                  \* per-target sub-scenes appended to the document
    total_target_bases,      \* --total-target-bases: NoBases or a number of bases
    scaling_factor,          \* the factor of main line 260
    detail_scaling_factor,   \* the factor of main line 408, handed to get_chr_svg_group
    input_files,             \* pgr-merge-svcnd-bed: <<label, lines of the bed file>>
    interval_collection,     \* pgr-merge-svcnd-bed: chromosome -> intervals read
    out_bed,                 \* pgr-merge-svcnd-bed: lines written to the output
    mpc                      \* position of main of pgr-merge-svcnd-bed

vars == <<args_ctg, records, target_length, query_length_tbl, pc,
          ctg_target_hit_len, ctg2tgt, tgt_to_records, qry_to_alt_tgt_records,
          tgt_to_alt_qry_records, target_aln_blocks, offset, hash_order,
          overview, detail, total_target_bases, scaling_factor,
          detail_scaling_factor, input_files, interval_collection, out_bed, mpc>>

\* The state of pgr-merge-svcnd-bed, which the plot program never touches.
merge_vars == <<input_files, interval_collection, out_bed, mpc>>

(***************************************************************************)
(* Bounds and input universes                                              *)
(***************************************************************************)
MaxRecs == 3

NoCtg == "<none>"
TNames == {"chr1", "chr2", "summary"}
QNames == {"ctgA", "ctgB", "ctgC"}

\* String order of the names that occur (Rust compares the bytes).
NameRank(n) ==
    CASE n = "chr1" -> 1 [] n = "chr2" -> 2 [] n = "summary" -> 3
      [] n = "ctgA" -> 4 [] n = "ctgB" -> 5 [] n = "ctgC" -> 6
      [] OTHER -> 7

target_padding == 1500000

\* --panel-width at its default, and the absent --total-target-bases.
panel_width == 1400
NoBases == -1

\* An f64 factor panel_width * 0.8 * mult / extent, kept as its three parts
\* (extent 0, an empty layout, is the division by zero that f64 allows).
Scale(mult, extent) == [panel |-> panel_width, mult |-> mult, extent |-> extent]
Unset == Scale(0, 0)

\* main lines 260-264
GlobalScale(bases, off) == IF bases # NoBases THEN Scale(1, bases) ELSE Scale(1, off)

\* main lines 408-412, magnified whatever the filter.
DetailScaleAlways12(ctg, sf) == [sf EXCEPT !.mult = sf.mult * 12]

DetailScale(ctg, sf) == IF ctg # NoCtg THEN sf ELSE [sf EXCEPT !.mult = sf.mult * 12]

(***************************************************************************)
(* Helpers: maps (FxHashMap) are functions on their key set                *)
(***************************************************************************)
EmptyMap == [k \in {} |-> 0]
MapPut(m, k, v) == [x \in (DOMAIN m) \cup {k} |-> IF x = k THEN v ELSE m[x]]
Range(s) == {s[i] : i \in 1..Len(s)}
Abs(x) == IF x < 0 THEN -x ELSE x
Max(a, b) == IF a >= b THEN a ELSE b
Perms(S) == {p \in [1..Cardinality(S) -> S] : \A a \in S : \E i \in DOMAIN p : p[i] = a}

\* s sorted by the integer keys k[i], equal keys keeping their order.
StableSortBy(s, k) ==
    LET n == Len(s)
        Pos(i) == 1 + Cardinality({j \in 1..n : k[j] < k[i] \/ (k[j] = k[i] /\ j < i)})
    IN  [p \in 1..n |-> s[CHOOSE i \in 1..n : Pos(i) = p]]

\* Order of (u32, String, u32) tuples.
TupleLess(a, b) ==
    \/ a[1] < b[1]
    \/ a[1] = b[1] /\ NameRank(a[2]) < NameRank(b[2])
    \/ a[1] = b[1] /\ a[2] = b[2] /\ a[3] < b[3]

SortTable(t) ==
    LET n == Len(t)
        Pos(i) == 1 + Cardinality({j \in 1..n : TupleLess(t[j], t[i])
                                                \/ (t[j] = t[i] /\ j < i)})
    IN  [p \in 1..n |-> t[CHOOSE i \in 1..n : Pos(i) = p]]

\* query_length: name -> length, a later entry of the table replacing an earlier.
RECURSIVE LengthMap(_, _)
LengthMap(tbl, i) ==
    IF i = 0 THEN EmptyMap
    ELSE MapPut(LengthMap(tbl, i - 1), tbl[i][2], tbl[i][3])

query_length == LengthMap(query_length_tbl, Len(query_length_tbl))

(***************************************************************************)
(* Coverage tally, main lines 165-172.  The u32 sum cannot wrap: the       *)
(* coordinates drawn are below 2^11 and at most MaxRecs of them are added. *)
(***************************************************************************)
AddHit(m, r) ==
    IF r.q_dup THEN m
    ELSE LET e  == IF r.q_name \in DOMAIN m THEN m[r.q_name] ELSE EmptyMap
             e2 == IF r.t_name \in DOMAIN e THEN e[r.t_name] ELSE 0
         IN  MapPut(m, r.q_name, MapPut(e, r.t_name, e2 + Abs(r.qe - r.qs)))

RECURSIVE TallyHits(_, _)
TallyHits(recs, i) ==
    IF i = 0 THEN EmptyMap ELSE AddHit(TallyHits(recs, i - 1), recs[i])

(***************************************************************************)
(* Primary target of one query, main lines 178-181: the entries of the     *)
(* inner map in its iteration order ord, stably sorted by tally descending,*)
(* first entry taken.                                                      *)
(***************************************************************************)
IterKeys(m, ord) == SelectSeq(ord, LAMBDA k : k \in DOMAIN m)

\* The comparator written a.1.cmp(&b.1): ascending, the smallest tally first.
PrimaryOfAscending(tgt_len, ord) ==
    LET keys == IterKeys(tgt_len, ord)
        srt  == StableSortBy(keys, [i \in 1..Len(keys) |-> tgt_len[keys[i]]])
    IN  srt[1]

PrimaryOf(tgt_len, ord) ==
    LET keys == IterKeys(tgt_len, ord)
        srt  == StableSortBy(keys, [i \in 1..Len(keys) |-> 0 - tgt_len[keys[i]]])
    IN  srt[1]

ResolveWith(hits, ords) == [q \in DOMAIN hits |-> PrimaryOf(hits[q], ords[q])]

(***************************************************************************)
(* Partition of the records, main lines 188-204                            *)
(***************************************************************************)
Push(m, k, r) == MapPut(m, k, (IF k \in DOMAIN m THEN m[k] ELSE <<>>) \o <<r>>)

RECURSIVE PartitionRecs(_, _, _)
PartitionRecs(recs, i, c2t) ==
    IF i = 0 THEN [prim |-> EmptyMap, altq |-> EmptyMap, altt |-> EmptyMap]
    ELSE LET p == PartitionRecs(recs, i - 1, c2t)
             r == recs[i]
         IN  IF r.q_dup THEN p
             ELSE IF c2t[r.q_name] # r.t_name
                  THEN [p EXCEPT !.altq = Push(p.altq, r.q_name, r),
                                 !.altt = Push(p.altt, r.t_name, r)]
                  ELSE [p EXCEPT !.prim = Push(p.prim, r.t_name, r)]

(***************************************************************************)
(* Linear layout, main lines 206-239                                       *)
(***************************************************************************)
\* lines 217-229: lengths of the distinct queries of the block, first
\* appearance counted; the length lookup is unwrapped for every record.
\* Without the q_set test: a query is counted once per record.
RECURSIVE QLenSumPerRecord(_, _, _)
QLenSumPerRecord(recs, i, qlen) ==
    IF i = 0 THEN [sum |-> 0, q_set |-> {}, panic |-> FALSE]
    ELSE LET a == QLenSumPerRecord(recs, i - 1, qlen)
             q == recs[i].q_name
         IN  IF a.panic \/ q \notin DOMAIN qlen THEN [a EXCEPT !.panic = TRUE]
             ELSE [a EXCEPT !.sum = a.sum + qlen[q], !.q_set = a.q_set \cup {q}]

RECURSIVE QLenSum(_, _, _)
QLenSum(recs, i, qlen) ==
    IF i = 0 THEN [sum |-> 0, q_set |-> {}, panic |-> FALSE]
    ELSE LET a == QLenSum(recs, i - 1, qlen)
             q == recs[i].q_name
         IN  IF a.panic \/ q \notin DOMAIN qlen THEN [a EXCEPT !.panic = TRUE]
             ELSE IF q \in a.q_set THEN a
             ELSE [a EXCEPT !.sum = a.sum + qlen[q], !.q_set = a.q_set \cup {q}]

Filtered(ctg, t_name) == ctg # NoCtg /\ ctg # "summary" /\ ctg # t_name

\* The running offset advanced by the target's length alone.
RECURSIVE LayoutBlocksTargetOnly(_, _, _, _, _)
LayoutBlocksTargetOnly(tbl, i, ctg, prim, qlen) ==
    IF i = 0 THEN [blocks |-> <<>>, offset |-> 0, panic |-> FALSE]
    ELSE LET a      == LayoutBlocksTargetOnly(tbl, i - 1, ctg, prim, qlen)
             id     == tbl[i][1]
             t_name == tbl[i][2]
             t_len  == tbl[i][3]
             recs   == IF t_name \in DOMAIN prim THEN prim[t_name] ELSE <<>>
         IN  IF Filtered(ctg, t_name) \/ t_name \notin DOMAIN prim THEN a
             ELSE [a EXCEPT
                     !.blocks = Append(a.blocks,
                                   [id |-> id, name |-> t_name, len |-> t_len,
                                    offset |-> a.offset, records |-> recs]),
                     !.offset = a.offset + t_len + target_padding]

RECURSIVE LayoutBlocks(_, _, _, _, _)
LayoutBlocks(tbl, i, ctg, prim, qlen) ==
    IF i = 0 THEN [blocks |-> <<>>, offset |-> 0, panic |-> FALSE]
    ELSE LET a      == LayoutBlocks(tbl, i - 1, ctg, prim, qlen)
             id     == tbl[i][1]
             t_name == tbl[i][2]
             t_len  == tbl[i][3]
             recs   == IF t_name \in DOMAIN prim THEN prim[t_name] ELSE <<>>
             s      == QLenSum(recs, Len(recs), qlen)
         IN  IF a.panic \/ Filtered(ctg, t_name) THEN a
             ELSE IF s.panic THEN [a EXCEPT !.panic = TRUE]
             ELSE IF t_name \in DOMAIN prim
                  THEN [a EXCEPT
                          !.blocks = Append(a.blocks,
                                        [id |-> id, name |-> t_name, len |-> t_len,
                                         offset |-> a.offset, records |-> recs]),
                          !.offset = a.offset + Max(t_len, s.sum) + target_padding]
                  ELSE a

(***************************************************************************)
(* Representatives and lanes, lines 309-345 and 624-690                    *)
(***************************************************************************)
\* The test written <=: on equal spans the later record replaces the earlier.
RECURSIVE BestQueryBlockLastSeen(_, _)
BestQueryBlockLastSeen(recs, i) ==
    IF i = 0 THEN EmptyMap
    ELSE LET m == BestQueryBlockLastSeen(recs, i - 1)
             r == recs[i]
             e == IF r.q_name \in DOMAIN m THEN m[r.q_name] ELSE r
         IN  IF Abs(e.qs - e.qe) <= Abs(r.qs - r.qe)
             THEN MapPut(m, r.q_name, r)
             ELSE MapPut(m, r.q_name, e)

RECURSIVE BestQueryBlock(_, _)
BestQueryBlock(recs, i) ==
    IF i = 0 THEN EmptyMap
    ELSE LET m == BestQueryBlock(recs, i - 1)
             r == recs[i]
             e == IF r.q_name \in DOMAIN m THEN m[r.q_name] ELSE r
         IN  IF Abs(e.qs - e.qe) < Abs(r.qs - r.qe)
             THEN MapPut(m, r.q_name, r)
             ELSE MapPut(m, r.q_name, e)

\* values() in the map's iteration order, left unsorted.
RepresentativesUnsorted(recs, ord) ==
    LET best == BestQueryBlock(recs, Len(recs))
        keys == IterKeys(best, ord)
    IN  [i \in 1..Len(keys) |-> best[keys[i]]]

\* values() in the map's iteration order, then sort_by_key(ts), which is stable.
Representatives(recs, ord) ==
    LET best == BestQueryBlock(recs, Len(recs))
        keys == IterKeys(best, ord)
        vals == [i \in 1..Len(keys) |-> best[keys[i]]]
    IN  StableSortBy(vals, [i \in 1..Len(vals) |-> vals[i].ts])

\* A u32 value as carry * 2^32 + v.  The subtraction as a release build
\* computes it wraps: a - b + 2^32 when a < b.
Wide(v) == [carry |-> 0, v |-> v]
U32Sub(a, b) == [carry |-> IF a < b THEN 1 ELSE 0, v |-> a - b]

\* lines 657-670: one query-side overlay of an alternate record.
AltQryOverlay(r, cori, q_len, t_offset, q_offset) ==
    LET qe == IF cori = 0 THEN Wide(r.qs) ELSE U32Sub(q_len, r.qs)
        qs == IF cori = 0 THEN Wide(r.qe) ELSE U32Sub(q_len, r.qe)
    IN  [q_name |-> r.q_name, t_name |-> r.t_name, ts |-> r.ts, te |-> r.te,
         b |-> t_offset + q_offset + qs.v, b_carry |-> qs.carry,
         e |-> t_offset + q_offset + qe.v, e_carry |-> qe.carry]

\* The fold over the sorted representatives: lane offsets, backbone segments
\* and (detail pass only) the query-side overlays.
\* Lanes kept apart by the padding that separates the blocks.
RECURSIVE LaneFoldPadded(_, _, _, _, _, _)
LaneFoldPadded(reps, i, qlen, t_offset, altq, with_alt) ==
    IF i = 0 THEN [q_offset |-> 0, q_offset_map |-> EmptyMap, lanes |-> <<>>,
                   alt_qry |-> <<>>]
    ELSE LET a     == LaneFoldPadded(reps, i - 1, qlen, t_offset, altq, with_alt)
             r     == reps[i]
             q_len == qlen[r.q_name]
         IN  [q_offset     |-> a.q_offset + q_len + target_padding,
              q_offset_map |-> MapPut(a.q_offset_map, r.q_name, a.q_offset),
              lanes        |-> Append(a.lanes,
                                  [q_name |-> r.q_name,
                                   b |-> t_offset + a.q_offset,
                                   e |-> t_offset + a.q_offset + q_len]),
              alt_qry      |-> a.alt_qry]

RECURSIVE LaneFold(_, _, _, _, _, _)
LaneFold(reps, i, qlen, t_offset, altq, with_alt) ==
    IF i = 0 THEN [q_offset |-> 0, q_offset_map |-> EmptyMap, lanes |-> <<>>,
                   alt_qry |-> <<>>]
    ELSE LET a     == LaneFold(reps, i - 1, qlen, t_offset, altq, with_alt)
             r     == reps[i]
             q_len == qlen[r.q_name]
             alts  == IF with_alt /\ r.q_name \in DOMAIN altq THEN altq[r.q_name] ELSE <<>>
         IN  IF r.q_name \in DOMAIN a.q_offset_map THEN a
             ELSE [q_offset     |-> a.q_offset + q_len,
                   q_offset_map |-> MapPut(a.q_offset_map, r.q_name, a.q_offset),
                   lanes        |-> Append(a.lanes,
                                       [q_name |-> r.q_name,
                                        b |-> t_offset + a.q_offset,
                                        e |-> t_offset + a.q_offset + q_len]),
                   alt_qry      |-> a.alt_qry \o
                                    [k \in 1..Len(alts) |->
                                       AltQryOverlay(alts[k], r.ctg_orientation, q_len,
                                                     t_offset, a.q_offset)]]

(***************************************************************************)
(* Coordinate transform and ribbons, lines 347-392 and 691-754             *)
(***************************************************************************)
\* The reflection without exchanging the endpoints.
ReflectUnswapped(r, q_len) ==
    IF r.ctg_orientation = 1
    THEN <<U32Sub(q_len, r.qs), U32Sub(q_len, r.qe)>>
    ELSE <<Wide(r.qs), Wide(r.qe)>>

Reflect(r, q_len) ==
    IF r.ctg_orientation = 1
    THEN <<U32Sub(q_len, r.qe), U32Sub(q_len, r.qs)>>
    ELSE <<Wide(r.qs), Wide(r.qe)>>

Swap(r, p) == IF r.orientation # r.ctg_orientation THEN <<p[2], p[1]>> ELSE p

\* The query side placed without the lane offset of its query.
RibbonNoLane(r, q_len, t_offset, lane) ==
    LET p == Swap(r, Reflect(r, q_len))
    IN  [rec |-> r,
         ts |-> r.ts + t_offset, te |-> r.te + t_offset,
         qs |-> p[1].v + t_offset, qs_carry |-> p[1].carry,
         qe |-> p[2].v + t_offset, qe_carry |-> p[2].carry]

Ribbon(r, q_len, t_offset, lane) ==
    LET p == Swap(r, Reflect(r, q_len))
    IN  [rec |-> r,
         ts |-> r.ts + t_offset, te |-> r.te + t_offset,
         qs |-> p[1].v + t_offset + lane, qs_carry |-> p[1].carry,
         qe |-> p[2].v + t_offset + lane, qe_carry |-> p[2].carry]

Drawn(r) == ~(r.t_dup /\ r.q_dup)

Ribbons(recs, qlen, t_offset, q_offset_map) ==
    LET kept == SelectSeq(recs, Drawn)
    IN  [k \in 1..Len(kept) |->
           Ribbon(kept[k], qlen[kept[k].q_name], t_offset, q_offset_map[kept[k].q_name])]

\* A checked (debug) build aborts on a u32 subtraction below zero.
RibbonUnderflow(recs, qlen) ==
    \E k \in 1..Len(recs) :
        /\ Drawn(recs[k])
        /\ recs[k].ctg_orientation = 1
        /\ (qlen[recs[k].q_name] < recs[k].qe \/ qlen[recs[k].q_name] < recs[k].qs)

AltQryUnderflow(reps, qlen, altq) ==
    \E i \in 1..Len(reps) :
        /\ reps[i].ctg_orientation = 1
        /\ reps[i].q_name \in DOMAIN altq
        /\ \E k \in 1..Len(altq[reps[i].q_name]) :
              LET a == altq[reps[i].q_name][k]
              IN  qlen[reps[i].q_name] < a.qs \/ qlen[reps[i].q_name] < a.qe

(***************************************************************************)
(* One overview group, plot_overview lines 269-394                         *)
(***************************************************************************)
OverviewGroup(blk, qlen, ord) ==
    LET reps == Representatives(blk.records, ord)
        f    == LaneFold(reps, Len(reps), qlen, blk.offset, EmptyMap, FALSE)
    IN  [name     |-> blk.name,
         backbone |-> <<blk.offset, blk.offset + blk.len>>,
         lanes    |-> f.lanes,
         ribbons  |-> Ribbons(blk.records, qlen, blk.offset, f.q_offset_map)]

(***************************************************************************)
(* One detail scene, get_chr_svg_group lines 526-756 (t_offset = 0.0)      *)
(***************************************************************************)
AltTgtOverlay(r, c2t) ==
    [t_name |-> r.t_name,
     q_tgt  |-> IF r.q_name \in DOMAIN c2t THEN c2t[r.q_name] ELSE "N/A",
     q_name |-> r.q_name, qs |-> r.qs, qe |-> r.qe,
     b |-> r.ts, e |-> r.te]

get_chr_svg_group(blk, altt, c2t, qlen, altq, ord) ==
    LET alts == IF blk.name \in DOMAIN altt THEN altt[blk.name] ELSE <<>>
        reps == Representatives(blk.records, ord)
        f    == LaneFold(reps, Len(reps), qlen, 0, altq, TRUE)
    IN  [name     |-> blk.name,
         backbone |-> <<0, blk.len>>,
         alt_tgt  |-> [k \in 1..Len(alts) |-> AltTgtOverlay(alts[k], c2t)],
         lanes    |-> f.lanes,
         alt_qry  |-> f.alt_qry,
         ribbons  |-> Ribbons(blk.records, qlen, 0, f.q_offset_map)]

\* lines 414-463: the blocks that get a sub-scene.
DetailBlocks(blocks, ctg) ==
    SelectSeq(blocks, LAMBDA blk : ctg = NoCtg \/ blk.name = ctg)

(***************************************************************************)
(* Inputs                                                                  *)
(***************************************************************************)
Rec(t, q, ts, te, qs, qe, clen, ori, cori, td, qd) ==
    [t_name |-> t, ts |-> ts, te |-> te, q_name |-> q, qs |-> qs, qe |-> qe,
     ctg_len |-> clen, orientation |-> ori, ctg_orientation |-> cori,
     t_dup |-> td, q_dup |-> qd]

SeqsUpTo(S, n) == UNION {[1..k -> S] : k \in 0..n}

QLenOf(q) == CASE q = "ctgA" -> 1500 [] q = "ctgB" -> 400 [] OTHER -> 300

QueryTable == <<<<2, "ctgB", 400>>, <<1, "ctgA", 1500>>, <<3, "ctgC", 300>>>>

\* Two targets, three queries; span and target start vary, and ctgA also
\* has a record with both duplicate flags set.
Variants ==
    { [ts |-> 0,   te |-> 100, qs |-> 100, qe |-> 200],
      [ts |-> 500, te |-> 800, qs |-> 0,   qe |-> 300] }

RecsMain ==
    { Rec(t, q, v.ts, v.te, v.qs, v.qe, QLenOf(q), 0, 0, FALSE, FALSE) :
        t \in {"chr1", "chr2"}, q \in QNames, v \in Variants }
    \cup { Rec("chr1", "ctgA", 0, 300, 0, 300, 1500, 0, 0, TRUE, TRUE) }

TablesMain == Perms({<<1, "chr1", 1000>>, <<2, "chr2", 2000>>})

\* pgr-merge-svcnd-bed not started.
MergeIdle ==
    /\ input_files = <<>>
    /\ interval_collection = EmptyMap
    /\ out_bed = <<>>
    /\ mpc = "idle"

InitPlot(Ctgs, Bases, Tables, QTable, RecU) ==
    /\ args_ctg \in Ctgs
    /\ total_target_bases \in Bases
    /\ scaling_factor = Unset
    /\ detail_scaling_factor = Unset
    /\ MergeIdle
    /\ target_length \in Tables
    /\ query_length_tbl = QTable
    /\ records \in SeqsUpTo(RecU, MaxRecs)
    /\ pc = "start"
    /\ ctg_target_hit_len = EmptyMap
    /\ ctg2tgt = EmptyMap
    /\ tgt_to_records = EmptyMap
    /\ qry_to_alt_tgt_records = EmptyMap
    /\ tgt_to_alt_qry_records = EmptyMap
    /\ target_aln_blocks = <<>>
    /\ offset = 0
    /\ hash_order = <<>>
    /\ overview = <<>>
    /\ detail = <<>>

InitWith(Ctgs, Tables, QTable, RecU) == InitPlot(Ctgs, {NoBases}, Tables, QTable, RecU)

Init == InitWith({NoCtg}, TablesMain, QueryTable, RecsMain)

\* Filtered runs: three targets, one of them named like the sentinel.
RecsFilter ==
    { Rec(t, q, v.ts, v.te, v.qs, v.qe, QLenOf(q), 0, 0, FALSE, FALSE) :
        t \in TNames, q \in {"ctgA", "ctgB"}, v \in Variants }

TablesFilter == {<<<<3, "summary", 500>>, <<1, "chr1", 1000>>, <<2, "chr2", 2000>>>>}

InitFilter == InitWith({"summary", "chr1", "chr2"}, TablesFilter, QueryTable, RecsFilter)

\* Projection: every combination of the two orientation flags, for ctgA on
\* both targets and for ctgB on chr2; ctgC can hold the first block.
QueryTableProj == <<<<1, "ctgA", 1000>>, <<2, "ctgB", 400>>, <<3, "ctgC", 300>>>>

RecsProj ==
    { Rec(t, "ctgA", 0, 100, 100, 200, 1000, ori, cori, FALSE, FALSE) :
        t \in {"chr1", "chr2"}, ori \in {0, 1}, cori \in {0, 1} }
    \cup { Rec("chr2", "ctgB", 0, 100, 100, 200, 400, ori, cori, FALSE, FALSE) :
             ori \in {0, 1}, cori \in {0, 1} }
    \cup { Rec("chr1", "ctgC", 0, 100, 100, 200, 300, 0, 0, FALSE, FALSE) }

InitProj == InitWith({NoCtg}, TablesMain, QueryTableProj, RecsProj)

\* Records that name what the tables lack: the target table has chr1 only,
\* the query table ctgA only.
TablesAbsent == {<<<<1, "chr1", 1000>>>>}
QueryTableAbsent == <<<<1, "ctgA", 1500>>>>

RecsAbsent ==
    { Rec(t, q, v.ts, v.te, v.qs, v.qe, QLenOf(q), 0, 0, FALSE, FALSE) :
        t \in {"chr1", "chr2"}, q \in {"ctgA", "ctgB"}, v \in Variants }
    \cup { Rec("chr1", "ctgB", 0, 300, 0, 300, 400, 0, 0, FALSE, TRUE) }

\* Lanes: on chr1 three records per query, two of them with the same span
\* (one of the two running backwards) and all with different target starts;
\* ctgB has a record on chr2 as well.
VariantsLanes ==
    { [ts |-> 0,   te |-> 100, qs |-> 100, qe |-> 200],
      [ts |-> 500, te |-> 600, qs |-> 300, qe |-> 200],
      [ts |-> 200, te |-> 500, qs |-> 0,   qe |-> 300] }

RecsLanes ==
    { Rec("chr1", q, v.ts, v.te, v.qs, v.qe, QLenOf(q), 0, 0, FALSE, FALSE) :
        q \in QNames, v \in VariantsLanes }
    \cup { Rec("chr2", "ctgB", 0, 100, 100, 200, 400, 0, 0, FALSE, FALSE) }

TablesLanes == {<<<<2, "chr2", 2000>>, <<1, "chr1", 1000>>>>}

InitLanes == InitWith({NoCtg}, TablesLanes, QueryTable, RecsLanes)

\* Scaling: with and without --total-target-bases, unfiltered, "summary"
\* and filtered to chr1.
BasesScale == {NoBases, 5000000}

RecsScale ==
    { Rec(t, q, v.ts, v.te, v.qs, v.qe, QLenOf(q), 0, 0, FALSE, FALSE) :
        t \in {"chr1", "chr2"}, q \in {"ctgA", "ctgB"}, v \in Variants }

InitScale == InitPlot({NoCtg, "summary", "chr1"}, BasesScale, TablesLanes, QueryTable, RecsScale)

\* Reflection: ctgA is 300 long in the query table while its records carry
\* ctg_len 1000; their query interval lies within the table length or past it.
QueryTableReflect == <<<<1, "ctgA", 300>>, <<2, "ctgB", 400>>>>

RecsReflect ==
    { Rec("chr1", "ctgA", 100, 200, iv[1], iv[2], 1000, ori, cori, FALSE, FALSE) :
        iv \in {<<100, 200>>, <<400, 500>>}, ori \in {0, 1}, cori \in {0, 1} }
    \cup { Rec("chr1", "ctgB", 0, 400, 0, 400, 400, 1, 1, FALSE, FALSE),
           Rec("chr2", "ctgA", 0, 600, 0, 300, 1000, 0, 1, FALSE, FALSE) }

InitReflect == InitWith({NoCtg}, TablesLanes, QueryTableReflect, RecsReflect)

InitAbsent == InitWith({NoCtg, "chr1"}, TablesAbsent, QueryTableAbsent, RecsAbsent)

(***************************************************************************)
(* Steps of main                                                           *)
(***************************************************************************)
\* The keys the inner maps of ctg_target_hit_len hold.
TargetsHit == UNION {DOMAIN ctg_target_hit_len[q] : q \in DOMAIN ctg_target_hit_len}

\* The keys the best_query_block maps of this run hold.
BlockQueries == UNION {{r.q_name : r \in Range(target_aln_blocks[i].records)} :
                         i \in 1..Len(target_aln_blocks)}

\* lines 155-172: sort the tables, tally the coverage.
Prepare ==
    /\ pc = "start"
    /\ target_length' = SortTable(target_length)
    /\ query_length_tbl' = SortTable(query_length_tbl)
    /\ ctg_target_hit_len' = TallyHits(records, Len(records))
    /\ pc' = "tallied"
    /\ UNCHANGED <<args_ctg, records, ctg2tgt, tgt_to_records, qry_to_alt_tgt_records,
                   tgt_to_alt_qry_records, target_aln_blocks, offset, hash_order,
                   overview, detail>>
    /\ UNCHANGED <<total_target_bases, scaling_factor, detail_scaling_factor>>
    /\ UNCHANGED merge_vars

\* lines 174-186: each inner map is iterated in an order the hasher fixes.
Resolve ==
    /\ pc = "tallied"
    /\ \E ords \in [DOMAIN ctg_target_hit_len -> Perms(TargetsHit)] :
          ctg2tgt' = ResolveWith(ctg_target_hit_len, ords)
    /\ pc' = "resolved"
    /\ UNCHANGED <<args_ctg, records, target_length, query_length_tbl,
                   ctg_target_hit_len, tgt_to_records, qry_to_alt_tgt_records,
                   tgt_to_alt_qry_records, target_aln_blocks, offset, hash_order,
                   overview, detail>>
    /\ UNCHANGED <<total_target_bases, scaling_factor, detail_scaling_factor>>
    /\ UNCHANGED merge_vars

\* lines 188-204
Partition ==
    /\ pc = "resolved"
    /\ LET p == PartitionRecs(records, Len(records), ctg2tgt)
       IN  /\ tgt_to_records' = p.prim
           /\ qry_to_alt_tgt_records' = p.altq
           /\ tgt_to_alt_qry_records' = p.altt
    /\ pc' = "partitioned"
    /\ UNCHANGED <<args_ctg, records, target_length, query_length_tbl,
                   ctg_target_hit_len, ctg2tgt, target_aln_blocks, offset,
                   hash_order, overview, detail>>
    /\ UNCHANGED <<total_target_bases, scaling_factor, detail_scaling_factor>>
    /\ UNCHANGED merge_vars

\* lines 206-264
Layout ==
    /\ pc = "partitioned"
    /\ LET l == LayoutBlocks(target_length, Len(target_length), args_ctg,
                             tgt_to_records, query_length)
       IN  IF l.panic
           THEN pc' = "panic" /\ UNCHANGED <<target_aln_blocks, offset, scaling_factor>>
           ELSE /\ pc' = "laid_out"
                /\ target_aln_blocks' = l.blocks
                /\ offset' = l.offset
                /\ scaling_factor' = GlobalScale(total_target_bases, l.offset)
    /\ UNCHANGED <<args_ctg, records, target_length, query_length_tbl,
                   ctg_target_hit_len, ctg2tgt, tgt_to_records,
                   qry_to_alt_tgt_records, tgt_to_alt_qry_records, hash_order,
                   overview, detail>>
    /\ UNCHANGED <<total_target_bases, detail_scaling_factor>>
    /\ UNCHANGED merge_vars

\* lines 266-403
PlotOverview ==
    /\ pc = "laid_out"
    /\ IF args_ctg \in {NoCtg, "summary"}
       THEN \E ord \in Perms(BlockQueries) :
              /\ hash_order' = ord
              /\ LET groups == [i \in 1..Len(target_aln_blocks) |->
                                  OverviewGroup(target_aln_blocks[i], query_length, ord)]
                     under  == \E i \in 1..Len(target_aln_blocks) :
                                  RibbonUnderflow(target_aln_blocks[i].records, query_length)
                 IN  \/ pc' = "overview" /\ overview' = groups
                     \/ under /\ pc' = "panic" /\ overview' = overview
       ELSE pc' = "overview" /\ UNCHANGED <<hash_order, overview>>
    /\ UNCHANGED <<args_ctg, records, target_length, query_length_tbl,
                   ctg_target_hit_len, ctg2tgt, tgt_to_records,
                   qry_to_alt_tgt_records, tgt_to_alt_qry_records,
                   target_aln_blocks, offset, detail>>
    /\ UNCHANGED <<total_target_bases, scaling_factor, detail_scaling_factor>>
    /\ UNCHANGED merge_vars

\* lines 405-463: the map of a block is rebuilt from the same insertions, so
\* it is iterated in the order the overview pass saw.
PlotDetail ==
    /\ pc = "overview"
    /\ \E ord \in Perms(BlockQueries) :
          /\ hash_order # <<>> => ord = hash_order
          /\ hash_order' = ord
          /\ detail_scaling_factor' = DetailScale(args_ctg, scaling_factor)
          /\ LET blks   == DetailBlocks(target_aln_blocks, args_ctg)
                 scenes == [i \in 1..Len(blks) |->
                              get_chr_svg_group(blks[i], tgt_to_alt_qry_records, ctg2tgt,
                                                query_length, qry_to_alt_tgt_records, ord)]
                 under  == \E i \in 1..Len(blks) :
                              \/ RibbonUnderflow(blks[i].records, query_length)
                              \/ AltQryUnderflow(Representatives(blks[i].records, ord),
                                                 query_length, qry_to_alt_tgt_records)
             IN  \/ pc' = "detail" /\ detail' = scenes
                 \/ under /\ pc' = "panic" /\ detail' = detail
    /\ UNCHANGED <<args_ctg, records, target_length, query_length_tbl,
                   ctg_target_hit_len, ctg2tgt, tgt_to_records,
                   qry_to_alt_tgt_records, tgt_to_alt_qry_records,
                   target_aln_blocks, offset, overview>>
    /\ UNCHANGED <<total_target_bases, scaling_factor>>
    /\ UNCHANGED merge_vars

\* lines 465-522: the output file is created and the document written.
WriteOutput ==
    /\ pc = "detail"
    /\ pc' = "done"
    /\ UNCHANGED <<args_ctg, records, target_length, query_length_tbl,
                   ctg_target_hit_len, ctg2tgt, tgt_to_records,
                   qry_to_alt_tgt_records, tgt_to_alt_qry_records,
                   target_aln_blocks, offset, hash_order, overview, detail>>
    /\ UNCHANGED <<total_target_bases, scaling_factor, detail_scaling_factor>>
    /\ UNCHANGED merge_vars

Next ==
    \/ Prepare
    \/ Resolve
    \/ Partition
    \/ Layout
    \/ PlotOverview
    \/ PlotDetail
    \/ WriteOutput

Spec == Init /\ [][Next]_vars
SpecFilter == InitFilter /\ [][Next]_vars
SpecProj == InitProj /\ [][Next]_vars
SpecAbsent == InitAbsent /\ [][Next]_vars
SpecLanes == InitLanes /\ [][Next]_vars
SpecScale == InitScale /\ [][Next]_vars
SpecReflect == InitReflect /\ [][Next]_vars

(***************************************************************************)
(* pgr-merge-svcnd-bed.  A line of a bed file is <<chr, bgn, end,          *)
(* annotation>>, a comment line has "#" for its first field; an interval   *)
(* is <<<<bgn, end>>, <<label, annotation>>>> as the type Interval.        *)
(***************************************************************************)
MaxLines == 3
MaxLinesSecond == 1

\* String order of the chromosome names, labels and annotations that occur.
StrRank(n) ==
    CASE n = "chr1" -> 1 [] n = "chr2" -> 2 [] n = "del" -> 3
      [] n = "h1" -> 4 [] n = "h2" -> 5 [] n = "ins" -> 6 [] OTHER -> 7

\* lines 52-69: the lines of one file pushed under their chromosome.
RECURSIVE ReadLines(_, _, _, _)
ReadLines(coll, label, lines, i) ==
    IF i = 0 THEN coll
    ELSE LET c == ReadLines(coll, label, lines, i - 1)
             l == lines[i]
         IN  IF l[1] = "#" THEN c
             ELSE Push(c, l[1], <<<<l[2], l[3]>>, <<label, l[4]>>>>)

RECURSIVE ReadFiles(_, _)
ReadFiles(files, i) ==
    IF i = 0 THEN EmptyMap
    ELSE ReadLines(ReadFiles(files, i - 1), files[i][1], files[i][2], Len(files[i][2]))

\* Order of ((u32, u32), (String, String)).
IntervalLess(a, b) ==
    \/ a[1][1] < b[1][1]
    \/ a[1][1] = b[1][1] /\ a[1][2] < b[1][2]
    \/ a[1] = b[1] /\ StrRank(a[2][1]) < StrRank(b[2][1])
    \/ a[1] = b[1] /\ a[2][1] = b[2][1] /\ StrRank(a[2][2]) < StrRank(b[2][2])

\* intervals.sort(), line 77
SortIntervals(t) ==
    LET n == Len(t)
        Pos(i) == 1 + Cardinality({j \in 1..n : IntervalLess(t[j], t[i])
                                                \/ (t[j] = t[i] /\ j < i)})
    IN  [p \in 1..n |-> t[CHOOSE i \in 1..n : Pos(i) = p]]

\* lines 81-93 with the test written <=: an interval that starts where the
\* group ends opens a new group.
RECURSIVE GroupFoldNoAbut(_, _)
GroupFoldNoAbut(ivs, i) ==
    IF i = 0 THEN [groups |-> <<>>, bgn |-> ivs[1][1][1], end |-> ivs[1][1][2],
                   cur |-> <<>>]
    ELSE LET a  == GroupFoldNoAbut(ivs, i - 1)
             iv == ivs[i]
         IN  IF a.end <= iv[1][1]
             THEN [groups |-> Append(a.groups, <<a.bgn, a.end, a.cur>>),
                   bgn |-> iv[1][1], end |-> iv[1][2], cur |-> <<iv>>]
             ELSE [a EXCEPT !.cur = Append(a.cur, iv),
                            !.end = IF a.end < iv[1][2] THEN iv[1][2] ELSE a.end]

\* lines 78-93: the fold over the sorted intervals.
RECURSIVE GroupFold(_, _)
GroupFold(ivs, i) ==
    IF i = 0 THEN [groups |-> <<>>, bgn |-> ivs[1][1][1], end |-> ivs[1][1][2],
                   cur |-> <<>>]
    ELSE LET a  == GroupFold(ivs, i - 1)
             iv == ivs[i]
         IN  IF a.end < iv[1][1]
             THEN [groups |-> Append(a.groups, <<a.bgn, a.end, a.cur>>),
                   bgn |-> iv[1][1], end |-> iv[1][2], cur |-> <<iv>>]
             ELSE [a EXCEPT !.cur = Append(a.cur, iv),
                            !.end = IF a.end < iv[1][2] THEN iv[1][2] ELSE a.end]

\* lines 71-93, the group still open after the last interval left out.
group_intervals_open_lost(ivs) ==
    IF ivs = <<>> THEN <<>> ELSE GroupFold(ivs, Len(ivs)).groups

\* lines 71-98, on the sorted intervals.
group_intervals(ivs) ==
    IF ivs = <<>> THEN <<>>
    ELSE LET f == GroupFold(ivs, Len(ivs))
         IN  IF f.cur # <<>> THEN Append(f.groups, <<f.bgn, f.end, f.cur>>)
             ELSE f.groups

\* lines 116-122
LabelCount(members, label) ==
    Cardinality({k \in 1..Len(members) : members[k][2][1] = label})
Labels(members) == {members[k][2][1] : k \in 1..Len(members)}

\* lines 106-153: the header line and the member lines of one group.
GroupLines(key, g) ==
    IF g[3] = <<>> \/ g[1] > g[2] THEN <<>>
    ELSE <<[kind |-> "merged", chr |-> key, bgn |-> g[1], end |-> g[2],
            labels |-> Cardinality(Labels(g[3])), count |-> Len(g[3])]>>
         \o [k \in 1..Len(g[3]) |->
               [kind |-> "member", chr |-> key, bgn |-> g[3][k][1][1],
                end |-> g[3][k][1][2], label |-> g[3][k][2][1],
                annotation |-> g[3][k][2][2], group_bgn |-> g[1], group_end |-> g[2],
                labels |-> Cardinality(Labels(g[3])),
                label_count |-> LabelCount(g[3], g[3][k][2][1])]]

RECURSIVE Flatten(_, _)
Flatten(ss, i) == IF i = 0 THEN <<>> ELSE Flatten(ss, i - 1) \o ss[i]

\* lines 104-153 for one chromosome, on its sorted intervals.
ChromosomeLines(key, ivs) ==
    LET gs == group_intervals(ivs)
    IN  Flatten([k \in 1..Len(gs) |-> GroupLines(key, gs[k])], Len(gs))

\* keys.sort(), lines 101-102
SortedKeys(coll) ==
    LET ks == DOMAIN coll
    IN  [p \in 1..Cardinality(ks) |->
           CHOOSE k \in ks : Cardinality({x \in ks : StrRank(x) < StrRank(k)}) = p - 1]

\* The plot program not started.
PlotIdle ==
    /\ args_ctg = NoCtg
    /\ total_target_bases = NoBases
    /\ records = <<>>
    /\ target_length = <<>>
    /\ query_length_tbl = <<>>
    /\ pc = "idle"
    /\ ctg_target_hit_len = EmptyMap
    /\ ctg2tgt = EmptyMap
    /\ tgt_to_records = EmptyMap
    /\ qry_to_alt_tgt_records = EmptyMap
    /\ tgt_to_alt_qry_records = EmptyMap
    /\ target_aln_blocks = <<>>
    /\ offset = 0
    /\ hash_order = <<>>
    /\ overview = <<>>
    /\ detail = <<>>
    /\ scaling_factor = Unset
    /\ detail_scaling_factor = Unset

plot_vars == <<args_ctg, total_target_bases, records, target_length, query_length_tbl,
               pc, ctg_target_hit_len, ctg2tgt, tgt_to_records, qry_to_alt_tgt_records,
               tgt_to_alt_qry_records, target_aln_blocks, offset, hash_order,
               overview, detail, scaling_factor, detail_scaling_factor>>

\* Bed lines: on chr1 intervals that overlap, abut, lie apart, or end before
\* they start; one interval on chr2; a comment line.
BedIntervals == {<<1, 4>>, <<4, 6>>, <<2, 8>>, <<7, 9>>, <<5, 3>>}

BedLines ==
    { <<"chr1", iv[1], iv[2], "del">> : iv \in BedIntervals }
    \cup { <<"chr2", 1, 4, "ins">>, <<"#", 0, 0, "del">> }

\* The lines of the second file.
BedLinesSecond == {<<"chr1", 1, 4, "del">>, <<"chr1", 7, 9, "del">>}

\* Two labelled files, the second the shorter.
InitMerge ==
    /\ PlotIdle
    /\ \E l1 \in SeqsUpTo(BedLines, MaxLines), l2 \in SeqsUpTo(BedLinesSecond, MaxLinesSecond) :
          input_files = <<<<"h2", l1>>, <<"h1", l2>>>>
    /\ interval_collection = EmptyMap
    /\ out_bed = <<>>
    /\ mpc = "start"

\* lines 35-69
ReadBeds ==
    /\ mpc = "start"
    /\ interval_collection' = ReadFiles(input_files, Len(input_files))
    /\ mpc' = "read"
    /\ UNCHANGED <<input_files, out_bed>>
    /\ UNCHANGED plot_vars

\* lines 100-154: the intervals of each chromosome are sorted in place,
\* grouped and written, the chromosomes in sorted order.
WriteMerged ==
    /\ mpc = "read"
    /\ interval_collection' =
          [k \in DOMAIN interval_collection |-> SortIntervals(interval_collection[k])]
    /\ LET keys == SortedKeys(interval_collection)
       IN  out_bed' = Flatten([p \in 1..Len(keys) |->
                                 ChromosomeLines(keys[p],
                                                 SortIntervals(interval_collection[keys[p]]))],
                              Len(keys))
    /\ mpc' = "done"
    /\ UNCHANGED input_files
    /\ UNCHANGED plot_vars

NextMerge ==
    \/ ReadBeds
    \/ WriteMerged

SpecMerge == InitMerge /\ [][NextMerge]_vars

(***************************************************************************)
(* Properties                                                              *)
(***************************************************************************)
Resolved == pc \notin {"start", "tallied"}
Partitioned == pc \notin {"start", "tallied", "resolved"}
LaidOut == pc \notin {"start", "tallied", "resolved", "partitioned", "panic"}

RECURSIVE SetSum(_, _)
SetSum(S, f) == IF S = {} THEN 0
                ELSE LET x == CHOOSE y \in S : TRUE IN f[x] + SetSum(S \ {x}, f)

\* Indices of the non-query-duplicate records of query q on target t.
Hits(q, t) == {i \in 1..Len(records) :
                 ~records[i].q_dup /\ records[i].q_name = q /\ records[i].t_name = t}

Coverage(q, t) ==
    SetSum(Hits(q, t), [i \in 1..Len(records) |-> Abs(records[i].qe - records[i].qs)])

\* Length of a name in a length table.
TableLen(tbl, n) ==
    tbl[CHOOSE i \in 1..Len(tbl) :
          tbl[i][2] = n /\ \A j \in 1..Len(tbl) : tbl[j][2] = n => j <= i][3]

\* C1: once the primaries are resolved, every query that has a
\* non-query-duplicate record has a primary target, and no target the query
\* has such records on has a strictly larger coverage tally than the primary.
C1_PrimaryHasMaxCoverage ==
    Resolved =>
      \A q \in QNames :
        (\E t \in TNames : Hits(q, t) # {}) =>
          /\ q \in DOMAIN ctg2tgt
          /\ Hits(q, ctg2tgt[q]) # {}
          /\ \A t \in TNames :
               Hits(q, t) # {} => Coverage(q, t) <= Coverage(q, ctg2tgt[q])

\* A query with two records on its primary target whose summed coverage
\* beats one longer record on the other target.
C1_Witness ==
    /\ pc = "resolved"
    /\ \E q \in QNames :
         /\ Cardinality(Hits(q, "chr2")) = 2
         /\ Cardinality(Hits(q, "chr1")) = 1
         /\ Coverage(q, "chr2") = 400
         /\ Coverage(q, "chr1") = 300
         /\ ctg2tgt[q] = "chr2"

InPrimary(r) ==
    r.t_name \in DOMAIN tgt_to_records /\ r \in Range(tgt_to_records[r.t_name])
InAltByQuery(r) ==
    r.q_name \in DOMAIN qry_to_alt_tgt_records /\ r \in Range(qry_to_alt_tgt_records[r.q_name])
InAltByTarget(r) ==
    r.t_name \in DOMAIN tgt_to_alt_qry_records /\ r \in Range(tgt_to_alt_qry_records[r.t_name])

\* C2: once the records are partitioned, every input record is either in
\* the primary index of its target (exactly when its query's primary target
\* is the record's target) or else in both alternate indices, never in both
\* sets and never in neither.
C2_EveryRecordPartitioned ==
    Partitioned =>
      \A r \in Range(records) :
        /\ InPrimary(r) <=> (r.q_name \in DOMAIN ctg2tgt /\ ctg2tgt[r.q_name] = r.t_name)
        /\ ~InPrimary(r) <=> (InAltByQuery(r) /\ InAltByTarget(r))
        /\ InAltByQuery(r) <=> InAltByTarget(r)

\* The query interval of record r as the transform is described, with the
\* table length qlen of its query.
Projected(r, qlen) ==
    LET a == IF r.ctg_orientation = 1 THEN <<qlen - r.qe, qlen - r.qs>>
                                      ELSE <<r.qs, r.qe>>
    IN  IF r.orientation # r.ctg_orientation THEN <<a[2], a[1]>> ELSE a

\* Start of the lane of query q in a group or scene.
LaneStart(g, q) == (CHOOSE k \in 1..Len(g.lanes) : g.lanes[k].q_name = q)

BlockOffsetOf(name) ==
    target_aln_blocks[CHOOSE i \in 1..Len(target_aln_blocks) :
                         target_aln_blocks[i].name = name].offset

\* Ribbon x of group g (whose lanes start at g.backbone[1]) shows the
\* projected interval of its record plus the lane offset plus base.
RibbonAt(g, x, base) ==
    LET r    == x.rec
        p    == Projected(r, TableLen(query_length_tbl, r.q_name))
        lane == g.lanes[LaneStart(g, r.q_name)].b - g.backbone[1]
    IN  /\ x.qs_carry = 0 /\ x.qe_carry = 0
        /\ x.qs = p[1] + lane + base
        /\ x.qe = p[2] + lane + base

\* C3 as stated: in the overview and in every detail scene, each ribbon's
\* query interval is the reflected-and-swapped interval plus the query's
\* within-block lane offset plus the global offset of the block.
C3_TransformPlusBlockOffset ==
    /\ \A i \in 1..Len(overview) : \A k \in 1..Len(overview[i].ribbons) :
          RibbonAt(overview[i], overview[i].ribbons[k], BlockOffsetOf(overview[i].name))
    /\ \A i \in 1..Len(detail) : \A k \in 1..Len(detail[i].ribbons) :
          RibbonAt(detail[i], detail[i].ribbons[k], BlockOffsetOf(detail[i].name))

\* C3 amended: the reflection and the swap are as stated in both passes; the
\* overview adds the lane offset and the block's global offset, a detail
\* scene adds the lane offset only (its coordinates are local to the scene).
C3_Transform ==
    /\ \A i \in 1..Len(overview) : \A k \in 1..Len(overview[i].ribbons) :
          RibbonAt(overview[i], overview[i].ribbons[k], BlockOffsetOf(overview[i].name))
    /\ \A i \in 1..Len(detail) : \A k \in 1..Len(detail[i].ribbons) :
          RibbonAt(detail[i], detail[i].ribbons[k], 0)

\* The fixture qlen=1000, qs=100, qe=200, both flags 1: (800, 900) plus the
\* offsets, in the overview group of the second block and in its detail scene,
\* behind the lane of another query.
C3_Witness ==
    /\ pc = "done"
    /\ Len(overview) = 2 /\ Len(detail) = 2
    /\ \E k \in 1..Len(overview[2].ribbons) :
          LET x == overview[2].ribbons[k]
          IN  /\ x.rec.q_name = "ctgA" /\ x.rec.orientation = 1 /\ x.rec.ctg_orientation = 1
              /\ x.qs = 800 + 400 + overview[2].backbone[1]
              /\ x.qe = 900 + 400 + overview[2].backbone[1]
              /\ overview[2].backbone[1] > 0
    /\ \E k \in 1..Len(detail[2].ribbons) :
          LET x == detail[2].ribbons[k]
          IN  /\ x.rec.q_name = "ctgA" /\ x.rec.orientation = 1 /\ x.rec.ctg_orientation = 1
              /\ x.qs = 800 + 400 /\ x.qe = 900 + 400
    /\ \E k \in 1..Len(detail[2].ribbons) :
          LET x == detail[2].ribbons[k]
          IN  /\ x.rec.orientation # x.rec.ctg_orientation /\ x.qs > x.qe

\* Distinct queries with a primary record on target t, and their extent.
PrimaryQueries(t) ==
    IF t \in DOMAIN tgt_to_records THEN {r.q_name : r \in Range(tgt_to_records[t])} ELSE {}

QueryExtent(t) ==
    SetSum(PrimaryQueries(t), [q \in PrimaryQueries(t) |-> TableLen(query_length_tbl, q)])

PlacementWidth(blk) == Max(blk.len, QueryExtent(blk.name)) + target_padding

RECURSIVE WidthsBefore(_)
WidthsBefore(i) ==
    IF i = 1 THEN 0
    ELSE WidthsBefore(i - 1) + PlacementWidth(target_aln_blocks[i - 1])

\* C4: the laid-out blocks follow ascending ordinal id, each block's offset
\* is the sum of max(target_length, query_extent) + padding over the blocks
\* before it (queries counted once each), so the first offset is 0 and the
\* offsets increase strictly.
C4_Offsets ==
    LaidOut =>
      \A i \in 1..Len(target_aln_blocks) :
        LET blk == target_aln_blocks[i]
        IN  /\ blk.len = TableLen(target_length, blk.name)
            /\ blk.offset = WidthsBefore(i)
            /\ i = 1 => blk.offset = 0
            /\ i > 1 => /\ target_aln_blocks[i - 1].id < blk.id
                        /\ target_aln_blocks[i - 1].offset < blk.offset

\* Two blocks; the first is wider than its target because of its queries,
\* one of which has two primary records.
C4_Witness ==
    /\ pc = "laid_out"
    /\ Len(target_aln_blocks) = 2
    /\ target_aln_blocks[1].name = "chr1"
    /\ PrimaryQueries("chr1") = {"ctgA"}
    /\ Len(tgt_to_records["chr1"]) = 2
    /\ target_aln_blocks[2].offset = 1500 + target_padding

\* C5: the primary assignment and the scenes of this run are what every
\* iteration order of the unordered maps yields.
C5_OrderIndependent ==
    /\ Resolved =>
         \A ords \in [DOMAIN ctg_target_hit_len -> Perms(TargetsHit)] :
            ResolveWith(ctg_target_hit_len, ords) = ctg2tgt
    /\ (pc \in {"overview", "detail", "done"} /\ args_ctg \in {NoCtg, "summary"}) =>
         \A ord \in Perms(BlockQueries) :
            overview = [i \in 1..Len(target_aln_blocks) |->
                          OverviewGroup(target_aln_blocks[i], query_length, ord)]
    /\ pc \in {"detail", "done"} =>
         \A ord \in Perms(BlockQueries) :
            LET blks == DetailBlocks(target_aln_blocks, args_ctg)
            IN  detail = [i \in 1..Len(blks) |->
                            get_chr_svg_group(blks[i], tgt_to_alt_qry_records, ctg2tgt,
                                              query_length, qry_to_alt_tgt_records, ord)]

TableNames == {target_length[i][2] : i \in 1..Len(target_length)}

\* C6: a finished run filtered to a target of the table has no overview
\* group, has a detail scene for that target and has no other detail scene.
C6_SingleTargetFilter ==
    (pc = "done" /\ args_ctg \notin {NoCtg, "summary"} /\ args_ctg \in TableNames) =>
       /\ overview = <<>>
       /\ \E i \in 1..Len(detail) : detail[i].name = args_ctg
       /\ \A i \in 1..Len(detail) : detail[i].name = args_ctg

\* C7: a finished run filtered to "summary" has one overview group per
\* laid-out block, in order, and no detail scene.
C7_SummaryFilter ==
    (pc = "done" /\ args_ctg = "summary") =>
       /\ Len(overview) = Len(target_aln_blocks)
       /\ \A i \in 1..Len(overview) : overview[i].name = target_aln_blocks[i].name
       /\ detail = <<>>

IsAlternate(r) == r.q_name \in DOMAIN ctg2tgt /\ ctg2tgt[r.q_name] # r.t_name

\* C8: in a finished unfiltered run every alternate record is drawn as a
\* target-side overlay in the detail scene of its own target and as a
\* query-side overlay in the detail scene of its query's primary target.
C8_AlternateOverlays ==
    (pc = "done" /\ args_ctg = NoCtg) =>
      \A r \in Range(records) :
        IsAlternate(r) =>
          /\ \E i \in 1..Len(detail) :
                /\ detail[i].name = r.t_name
                /\ \E k \in 1..Len(detail[i].alt_tgt) :
                      LET o == detail[i].alt_tgt[k]
                      IN  /\ o.q_name = r.q_name /\ o.qs = r.qs /\ o.qe = r.qe
                          /\ o.b = r.ts /\ o.e = r.te
          /\ \E i \in 1..Len(detail) :
                /\ detail[i].name = ctg2tgt[r.q_name]
                /\ \E k \in 1..Len(detail[i].alt_qry) :
                      LET o == detail[i].alt_qry[k]
                      IN  /\ o.q_name = r.q_name /\ o.t_name = r.t_name
                          /\ o.ts = r.ts /\ o.te = r.te

DoublyDup(r) == r.t_dup /\ r.q_dup

\* C9: no ribbon is drawn from a doubly-duplicate record, but such a record
\* of a query assigned to its target is among the records of the target's
\* block and its query has a lane there; per block, records minus ribbons is
\* the number of doubly-duplicate records.
C9_DoublyDuplicate ==
    pc = "done" =>
      /\ \A i \in 1..Len(detail) : \A k \in 1..Len(detail[i].ribbons) :
            ~DoublyDup(detail[i].ribbons[k].rec)
      /\ \A i \in 1..Len(overview) : \A k \in 1..Len(overview[i].ribbons) :
            ~DoublyDup(overview[i].ribbons[k].rec)
      /\ \A r \in Range(records) :
            (DoublyDup(r) /\ r.q_name \in DOMAIN ctg2tgt /\ ctg2tgt[r.q_name] = r.t_name) =>
               \A i \in 1..Len(target_aln_blocks) :
                  target_aln_blocks[i].name = r.t_name =>
                     /\ r \in Range(target_aln_blocks[i].records)
                     /\ \E k \in 1..Len(overview[i].lanes) :
                           overview[i].lanes[k].q_name = r.q_name
      /\ \A i \in 1..Len(overview) :
            Len(target_aln_blocks[i].records) - Len(overview[i].ribbons)
              = Cardinality({k \in 1..Len(target_aln_blocks[i].records) :
                               DoublyDup(target_aln_blocks[i].records[k])})

RECURSIVE SeqSum(_)
SeqSum(s) == IF s = <<>> THEN 0 ELSE Head(s) + SeqSum(Tail(s))

\* Within-block offsets of the lanes of a group or scene.
LaneOffsets(g) == [k \in 1..Len(g.lanes) |-> g.lanes[k].b - g.backbone[1]]

Scenes == Range(overview) \cup Range(detail)

\* C10 as stated: the offsets of the lanes of a block sum to at most
\* max(target_length, query_extent).
C10_SumOfOffsets ==
    \A g \in Scenes :
       SeqSum(LaneOffsets(g)) <= Max(TableLen(target_length, g.name), QueryExtent(g.name))

\* C10 amended: each lane offset of a block is at most
\* max(target_length, query_extent).
C10_EachOffsetFits ==
    \A g \in Scenes :
       \A k \in 1..Len(g.lanes) :
          /\ 0 <= LaneOffsets(g)[k]
          /\ LaneOffsets(g)[k] <= Max(TableLen(target_length, g.name), QueryExtent(g.name))

\* Three lanes in chr1's block, at 0, 1500 and 1900: they sum to 3400, over
\* the extent 2200, while each lies within it.
C10_Witness ==
    /\ pc = "done"
    /\ \E g \in Scenes :
          /\ g.name = "chr1"
          /\ LaneOffsets(g) = <<0, 1500, 1900>>
          /\ Max(TableLen(target_length, g.name), QueryExtent(g.name)) = 2200

(***************************************************************************)
(* Names missing from the length tables                                    *)
(***************************************************************************)
QueryNames == {query_length_tbl[i][2] : i \in 1..Len(query_length_tbl)}

NamesKnown(r) == r.q_name \in QueryNames /\ r.t_name \in TableNames

\* C11: a run whose output file is created and written has no record that
\* names a query missing from the query-length table or a target missing
\* from the target-length table (such a record aborts the run before).
C11_AbsentNameIsFatal ==
    pc = "done" => \A r \in Range(records) : NamesKnown(r)

(***************************************************************************)
(* Targets without primary records                                         *)
(***************************************************************************)
BlockNamed(t) == {k \in 1..Len(target_aln_blocks) : target_aln_blocks[k].name = t}

\* C12: every target of the table that passes the filter and has no primary
\* record still has a block, with no records and a placement width of its
\* own length plus the padding, and (when the overview is drawn) an overview
\* group with its backbone and no ribbons.
C12_TargetsWithoutPrimaryLaidOut ==
    LaidOut =>
      \A i \in 1..Len(target_length) :
        LET t == target_length[i][2]
        IN  (~Filtered(args_ctg, t) /\ t \notin DOMAIN tgt_to_records) =>
              /\ \E k \in BlockNamed(t) :
                    /\ target_aln_blocks[k].records = <<>>
                    /\ target_aln_blocks[k].len = target_length[i][3]
                    /\ IF k < Len(target_aln_blocks)
                       THEN target_aln_blocks[k + 1].offset
                              = target_aln_blocks[k].offset + target_length[i][3] + target_padding
                       ELSE offset = target_aln_blocks[k].offset + target_length[i][3]
                                       + target_padding
              /\ (pc \in {"overview", "detail", "done"} /\ args_ctg \in {NoCtg, "summary"}) =>
                    \E g \in Range(overview) :
                       /\ g.name = t
                       /\ g.backbone[2] - g.backbone[1] = target_length[i][3]
                       /\ g.ribbons = <<>>

(***************************************************************************)
(* Representatives                                                         *)
(***************************************************************************)
Span(r) == Abs(r.qs - r.qe)

\* Index in recs of the first record of query q whose span is maximal among
\* the records of q.
FirstMaxSpan(recs, q) ==
    CHOOSE i \in 1..Len(recs) :
       /\ recs[i].q_name = q
       /\ \A j \in 1..Len(recs) :
             recs[j].q_name = q =>
                (Span(recs[j]) < Span(recs[i]) \/ (Span(recs[j]) = Span(recs[i]) /\ i <= j))

LaneNames(g) == [k \in 1..Len(g.lanes) |-> g.lanes[k].q_name]

Drew == pc \in {"overview", "detail", "done"} /\ hash_order # <<>>

\* C13: in each block the representatives are one record per query of the
\* block, each the first record of its query with the maximal span; the
\* overview group and the detail scene of the block have their lanes in the
\* order of these same representatives.
C13_Representatives ==
    Drew =>
      \A i \in 1..Len(target_aln_blocks) :
        LET blk  == target_aln_blocks[i]
            reps == Representatives(blk.records, hash_order)
        IN  /\ {reps[k].q_name : k \in 1..Len(reps)} = {r.q_name : r \in Range(blk.records)}
            /\ Len(reps) = Cardinality({r.q_name : r \in Range(blk.records)})
            /\ \A k \in 1..Len(reps) :
                  reps[k] = blk.records[FirstMaxSpan(blk.records, reps[k].q_name)]
            /\ \A g \in Scenes :
                  g.name = blk.name =>
                     LaneNames(g) = [k \in 1..Len(reps) |-> reps[k].q_name]

\* ctgA has two records of span 100 on chr1, the one starting at 500 first;
\* it is the representative, so ctgB (starting at 200) gets the first lane
\* in the overview group and in the detail scene.
C13_Witness ==
    /\ pc = "done"
    /\ Len(target_aln_blocks) = 1
    /\ LET recs == target_aln_blocks[1].records
       IN  /\ Len(recs) = 3
           /\ recs[1].q_name = "ctgA" /\ recs[1].ts = 500 /\ Span(recs[1]) = 100
           /\ recs[2].q_name = "ctgA" /\ recs[2].ts = 0 /\ Span(recs[2]) = 100
           /\ recs[3].q_name = "ctgB" /\ recs[3].ts = 200
    /\ LaneNames(overview[1]) = <<"ctgB", "ctgA">>
    /\ LaneNames(detail[1]) = <<"ctgB", "ctgA">>

(***************************************************************************)
(* Lane offsets                                                            *)
(***************************************************************************)
BlockOf(g) == target_aln_blocks[CHOOSE i \in 1..Len(target_aln_blocks) :
                                   target_aln_blocks[i].name = g.name]

\* C14: in every overview group and detail scene the lanes follow the
\* representatives in ascending target-start order; the first lane has
\* within-block offset 0 and each next lane starts where the previous one
\* ends, a lane being as long as its query's table length.  So the lanes
\* [offset, offset + length) are pairwise disjoint, and a query whose
\* representative starts earlier on the target never has the larger offset.
C14_LaneOffsets ==
    Drew =>
      \A g \in Scenes :
        LET reps == Representatives(BlockOf(g).records, hash_order)
            n    == Len(g.lanes)
            off  == LaneOffsets(g)
        IN  /\ n = Len(reps)
            /\ \A k \in 1..n : g.lanes[k].q_name = reps[k].q_name
            /\ \A k \in 1..(n - 1) : reps[k].ts <= reps[k + 1].ts
            /\ n > 0 => off[1] = 0
            /\ \A k \in 1..n :
                  g.lanes[k].e = g.lanes[k].b + TableLen(query_length_tbl, g.lanes[k].q_name)
            /\ \A k \in 1..(n - 1) : g.lanes[k + 1].b = g.lanes[k].e
            /\ \A k, j \in 1..n :
                  k # j => (g.lanes[k].e <= g.lanes[j].b \/ g.lanes[j].e <= g.lanes[k].b)
            /\ \A k, j \in 1..n : reps[k].ts < reps[j].ts => off[k] <= off[j]

\* chr1 with ctgC at 0, ctgA at 200 and ctgB at 500, the records given in
\* another order: lanes at 0, 300 and 1800 in the overview and the detail.
C14_Witness ==
    /\ pc = "done"
    /\ Len(records) = 3
    /\ records[1].q_name = "ctgB" /\ records[1].ts = 500
    /\ records[2].q_name = "ctgA" /\ records[2].ts = 200
    /\ records[3].q_name = "ctgC" /\ records[3].ts = 0
    /\ \A g \in Scenes :
          /\ g.name = "chr1"
          /\ LaneNames(g) = <<"ctgC", "ctgA", "ctgB">>
          /\ LaneOffsets(g) = <<0, 300, 1800>>

(***************************************************************************)
(* Scaling                                                                 *)
(***************************************************************************)
\* Sum of the placement widths of the laid-out blocks.
TotalWidth == WidthsBefore(Len(target_aln_blocks) + 1)

TotalExtent == IF total_target_bases # NoBases THEN total_target_bases ELSE TotalWidth

\* The factor panel_width * 0.8 * mult / TotalExtent.
FactorIs(f, mult) == f.panel = panel_width /\ f.mult = mult /\ f.extent = TotalExtent

\* C15 as stated: the global factor is panel_width * 0.8 / total_extent and,
\* in every run, the factor of the detail scenes is 12 times the global one.
C15_DetailAlwaysTimes12 ==
    /\ LaidOut => FactorIs(scaling_factor, 1)
    /\ pc \in {"detail", "done"} => FactorIs(detail_scaling_factor, 12)

\* C15 amended: the global factor is as stated; the factor of the detail
\* scenes is 12 times the global one in a run without --ctg and is the
\* global factor itself in a run with --ctg.
C15_Scaling ==
    /\ LaidOut => FactorIs(scaling_factor, 1)
    /\ pc \in {"detail", "done"} =>
          FactorIs(detail_scaling_factor, IF args_ctg = NoCtg THEN 12 ELSE 1)

\* A run filtered to chr1, whose block is as wide as its query ctgA: the
\* scene of chr1 is drawn with the global factor 1400 * 0.8 / 1501500.
C15_Witness ==
    /\ pc = "done"
    /\ args_ctg = "chr1"
    /\ total_target_bases = NoBases
    /\ Len(detail) = 1 /\ detail[1].name = "chr1"
    /\ scaling_factor = Scale(1, 1500 + target_padding)
    /\ detail_scaling_factor = scaling_factor

(***************************************************************************)
(* Lanes within the block                                                  *)
(***************************************************************************)
\* Where the layout put the end of block i, its padding excluded.
BlockEnd(i) ==
    (IF i < Len(target_aln_blocks) THEN target_aln_blocks[i + 1].offset ELSE offset)
      - target_padding

\* C17: in every overview group and detail scene each lane ends within
\* max(target_length, query_extent) of its block, the last lane ending at
\* the query extent exactly; that maximum is the width the layout gave the
\* block, so in the overview every lane ends before the next block starts.
C17_LanesFit ==
    Drew =>
      /\ \A g \in Scenes :
            LET n   == Len(g.lanes)
                ext == Max(TableLen(target_length, g.name), QueryExtent(g.name))
            IN  /\ \A k \in 1..n : g.lanes[k].e - g.backbone[1] <= ext
                /\ n > 0 => g.lanes[n].e - g.backbone[1] = QueryExtent(g.name)
      /\ \A i \in 1..Len(overview) :
            /\ BlockEnd(i) - target_aln_blocks[i].offset
                 = Max(target_aln_blocks[i].len, QueryExtent(overview[i].name))
            /\ \A k \in 1..Len(overview[i].lanes) :
                  /\ overview[i].lanes[k].e <= BlockEnd(i)
                  /\ i < Len(overview) =>
                        overview[i].lanes[k].e < overview[i + 1].backbone[1]

\* chr1 (1000) holds ctgA (1500) and ctgC (300): the last lane ends at 1800,
\* past the target, and chr2's block starts at 1800 plus the padding.
C17_Witness ==
    /\ pc = "done"
    /\ Len(overview) = 2
    /\ overview[1].name = "chr1" /\ overview[1].backbone = <<0, 1000>>
    /\ Len(overview[1].lanes) = 2
    /\ overview[1].lanes[2].e = 1800
    /\ overview[2].backbone[1] = 1800 + target_padding

(***************************************************************************)
(* Range of the reflection                                                 *)
(***************************************************************************)
InCtgLen(r) == r.qs <= r.qe /\ r.qe <= r.ctg_len
InTableLen(r) == r.qs <= r.qe /\ r.qe <= TableLen(query_length_tbl, r.q_name)

\* Ribbon x of group g was computed without wrapping and its two query
\* endpoints lie in the lane of its query.
RibbonInLane(g, x) ==
    LET lane == g.lanes[LaneStart(g, x.rec.q_name)]
    IN  /\ x.qs_carry = 0 /\ x.qe_carry = 0
        /\ lane.b <= x.qs /\ x.qs <= lane.e
        /\ lane.b <= x.qe /\ x.qe <= lane.e

\* The run stopped in one of the two drawing passes, on a u32 subtraction
\* below zero.
UnderflowAbort == pc = "panic" /\ scaling_factor # Unset

\* C18 as stated: for every primary record with qs <= qe <= ctg_len the
\* reflection does not underflow (no wrapped endpoint, no abort of a run
\* whose records all satisfy the condition) and the ribbon's query endpoints
\* lie inside the lane of its query.
C18_InRangeByCtgLen ==
    /\ \A g \in Scenes : \A k \in 1..Len(g.ribbons) :
          InCtgLen(g.ribbons[k].rec) => RibbonInLane(g, g.ribbons[k])
    /\ UnderflowAbort => \E r \in Range(records) : ~InCtgLen(r)

\* C18 amended: the same with qs <= qe <= the query's length in the
\* query-length table, which is the length the reflection subtracts from.
C18_InRangeByTableLen ==
    /\ \A g \in Scenes : \A k \in 1..Len(g.ribbons) :
          InTableLen(g.ribbons[k].rec) => RibbonInLane(g, g.ribbons[k])
    /\ UnderflowAbort => \E r \in Range(records) : ~InTableLen(r)

\* chr1 with ctgB (reflected onto its whole lane, 0 to 400) and behind it
\* ctgA, whose reflected record (100, 200) of table length 300 lands at
\* 400 + 100 and 400 + 200.
C18_Witness ==
    /\ pc = "done"
    /\ \E g \in Range(detail) :
          /\ LaneNames(g) = <<"ctgB", "ctgA">>
          /\ \E k \in 1..Len(g.ribbons) :
                LET x == g.ribbons[k]
                IN  /\ x.rec.q_name = "ctgB" /\ x.rec.ctg_orientation = 1
                    /\ x.qs = 0 /\ x.qe = 400
          /\ \E k \in 1..Len(g.ribbons) :
                LET x == g.ribbons[k]
                IN  /\ x.rec.q_name = "ctgA" /\ x.rec.ctg_orientation = 1
                    /\ x.rec.orientation = 1 /\ InTableLen(x.rec)
                    /\ x.qs = 500 /\ x.qe = 600

(***************************************************************************)
(* pgr-merge-svcnd-bed: the merged regions                                 *)
(***************************************************************************)
Chrs == {"chr1", "chr2"}

\* The lines read, comment lines left out, as <<chr, bgn, end, label, annotation>>.
InputTuples ==
    {<<f, k>> \in {<<f, k>> \in (1..Len(input_files)) \X (1..(MaxLines + MaxLinesSecond)) :
                      k <= Len(input_files[f][2])} :
        input_files[f][2][k][1] # "#"}

TupleAt(fk) ==
    LET l == input_files[fk[1]][2][fk[2]]
    IN  <<l[1], l[2], l[3], input_files[fk[1]][1], l[4]>>

\* The intervals <<bgn, end>> read for chromosome c.
InputIvs(c) == {<<TupleAt(fk)[2], TupleAt(fk)[3]>> : fk \in {x \in InputTuples : TupleAt(x)[1] = c}}

\* Two intervals overlap or abut.
Touch(a, b) == a[1] <= b[2] /\ b[1] <= a[2]

\* The intervals chained to those of R within S.
RECURSIVE Reach(_, _)
Reach(S, R) ==
    LET R2 == R \cup {b \in S : \E a \in R : Touch(a, b)}
    IN  IF R2 = R THEN R ELSE Reach(S, R2)

MinBgn(C) == CHOOSE x \in {a[1] : a \in C} : \A a \in C : x <= a[1]
MaxEnd(C) == CHOOSE x \in {a[2] : a \in C} : \A a \in C : a[2] <= x

\* The maximal chained groups of chromosome c, each as <<min start, max end>>.
Regions(c) == {<<MinBgn(Reach(InputIvs(c), {a})), MaxEnd(Reach(InputIvs(c), {a}))>> :
                 a \in InputIvs(c)}

Headers == SelectSeq(out_bed, LAMBDA l : l.kind = "merged")
HeadersOf(c) == SelectSeq(Headers, LAMBDA l : l.chr = c)
RegionsEmitted(c) == {<<HeadersOf(c)[k].bgn, HeadersOf(c)[k].end>> : k \in 1..Len(HeadersOf(c))}

\* The order of the output: chromosomes in sorted order, the regions of a
\* chromosome ascending, each starting after the previous one ends.
RegionsOrdered ==
    \A k \in 1..(Len(Headers) - 1) :
       \/ StrRank(Headers[k].chr) < StrRank(Headers[k + 1].chr)
       \/ Headers[k].chr = Headers[k + 1].chr /\ Headers[k].end < Headers[k + 1].bgn

\* C16 as stated: the regions written for a chromosome are exactly its
\* maximal groups of intervals chained by overlap or abutment, each with the
\* minimum start and maximum end of its members, in ascending order and
\* apart from each other, the chromosomes in sorted order.
C16_MergedRegions ==
    mpc = "done" =>
      /\ \A c \in Chrs :
            /\ RegionsEmitted(c) = Regions(c)
            /\ Len(HeadersOf(c)) = Cardinality(Regions(c))
      /\ RegionsOrdered

\* C16 amended: the same, except that a group that ends before it starts (a
\* lone interval with start > end) is not written.
C16_MergedRegionsWellFormed ==
    mpc = "done" =>
      /\ \A c \in Chrs :
            /\ RegionsEmitted(c) = {g \in Regions(c) : g[1] <= g[2]}
            /\ Len(HeadersOf(c)) = Cardinality({g \in Regions(c) : g[1] <= g[2]})
      /\ RegionsOrdered

\* chr1 with (4,6), (7,9), (1,4) and chr2 with (1,4): the regions (1,6) and
\* (7,9) of chr1, then (1,4) of chr2.
C16_Witness ==
    /\ mpc = "done"
    /\ InputIvs("chr1") = {<<1, 4>>, <<4, 6>>, <<7, 9>>}
    /\ input_files[1][2][1][2] = 4
    /\ Len(Headers) = 3
    /\ Headers[1].chr = "chr1" /\ Headers[1].bgn = 1 /\ Headers[1].end = 6
    /\ Headers[2].chr = "chr1" /\ Headers[2].bgn = 7 /\ Headers[2].end = 9
    /\ Headers[3].chr = "chr2" /\ Headers[3].bgn = 1 /\ Headers[3].end = 4

(***************************************************************************)
(* pgr-merge-svcnd-bed: nothing lost                                       *)
(***************************************************************************)
\* How often the tuple t was read, and how often it was written.
TimesRead(t) == Cardinality({fk \in InputTuples : TupleAt(fk) = t})

MemberTuple(l) == <<l.chr, l.bgn, l.end, l.label, l.annotation>>
MembersOf(t) == {k \in 1..Len(out_bed) : out_bed[k].kind = "member" /\ MemberTuple(out_bed[k]) = t}

\* The member lines of t are in one group, which contains the interval.
InOneGroup(t) ==
    \A k, j \in MembersOf(t) :
       /\ out_bed[k].group_bgn = out_bed[j].group_bgn
       /\ out_bed[k].group_end = out_bed[j].group_end
       /\ out_bed[k].group_bgn <= t[2] /\ t[3] <= out_bed[k].group_end

\* The lines from a header to the next header.
GroupEndsAt(p) ==
    IF \E k \in (p + 1)..Len(out_bed) : out_bed[k].kind = "merged"
    THEN (CHOOSE k \in (p + 1)..Len(out_bed) :
             /\ out_bed[k].kind = "merged"
             /\ \A j \in (p + 1)..(k - 1) : out_bed[j].kind = "member") - 1
    ELSE Len(out_bed)

\* Every header counts the member lines after it and their distinct labels;
\* the members carry the header's chromosome and region.
HeadersCount ==
    /\ out_bed # <<>> => out_bed[1].kind = "merged"
    /\ \A p \in 1..Len(out_bed) :
          out_bed[p].kind = "merged" =>
             LET ms == (p + 1)..GroupEndsAt(p)
             IN  /\ out_bed[p].count = Cardinality(ms)
                 /\ out_bed[p].labels = Cardinality({out_bed[k].label : k \in ms})
                 /\ \A k \in ms :
                       /\ out_bed[k].chr = out_bed[p].chr
                       /\ out_bed[k].group_bgn = out_bed[p].bgn
                       /\ out_bed[k].group_end = out_bed[p].end

\* No member line without an interval read.
NothingInvented ==
    \A k \in 1..Len(out_bed) :
       out_bed[k].kind = "member" =>
          Cardinality(MembersOf(MemberTuple(out_bed[k]))) <= TimesRead(MemberTuple(out_bed[k]))

\* C19 as stated: every interval read is written as often as it was read,
\* in one group whose region contains it; every header counts its member
\* lines and their distinct labels.
C19_NothingLost ==
    mpc = "done" =>
      /\ \A fk \in InputTuples :
            /\ Cardinality(MembersOf(TupleAt(fk))) = TimesRead(TupleAt(fk))
            /\ InOneGroup(TupleAt(fk))
      /\ NothingInvented
      /\ HeadersCount

\* C19 amended: the same for every interval with start <= end; an interval
\* with start > end is written in a group it joined and is dropped when it
\* opens a group.
C19_NothingLostWellFormed ==
    mpc = "done" =>
      /\ \A fk \in InputTuples :
            LET t == TupleAt(fk)
            IN  /\ t[2] <= t[3] => Cardinality(MembersOf(t)) = TimesRead(t)
                /\ InOneGroup(t)
      /\ NothingInvented
      /\ HeadersCount

\* Both files hold (1,4) of chr1, the first also (4,6) twice: one group of
\* four members and two labels.
C19_Witness ==
    /\ mpc = "done"
    /\ TimesRead(<<"chr1", 4, 6, "h2", "del">>) = 2
    /\ TimesRead(<<"chr1", 1, 4, "h2", "del">>) = 1
    /\ TimesRead(<<"chr1", 1, 4, "h1", "del">>) = 1
    /\ Len(out_bed) = 5
    /\ out_bed[1].count = 4 /\ out_bed[1].labels = 2
    /\ out_bed[1].bgn = 1 /\ out_bed[1].end = 6
    /\ out_bed[2].label = "h1"

====
